---- MODULE Spec2Model ----
(***************************************************************************)
(* Model of the charmstream contract (src/src/lib.rs): the linear vesting  *)
(* function StreamState::vested_at, the projector stream_states_in /       *)
(* stream_states_out and the validator app_contract with validate_create   *)
(* and validate_claim.                                                     *)
(*                                                                         *)
(* Option<T> is a sequence of length 0 (None) or 1 (Some).  Vec<T> is a    *)
(* sequence; Rust indices are 0-based, so v.get(i) reads v[i + 1].         *)
(* u64 is 0..MaxU.  The validators return the diagnostic of the first      *)
(* failed check, or "ok"; the boolean of the code is (reason = "ok").      *)
(***************************************************************************)
EXTENDS Integers, Sequences, FiniteSets, TLC

\* ------------------------------------------------------------------------
\* Bounds
\* ------------------------------------------------------------------------

\* largest value of the unsigned integer type (u64::MAX, scaled down)
MaxU == 15

\* largest amount / time field of a stream state in a validated transaction
MaxAmount == 2

MaxTime == 2

\* ------------------------------------------------------------------------
\* Data
\* ------------------------------------------------------------------------

None == << >>

Some(v) == << v >>

IsSome(o) == Len(o) = 1

Unwrap(o) == o[1]

U64 == 0 .. MaxU

\* scriptPubKey byte strings: the beneficiaries and the stream's own script
Beneficiary1 == << 1 >>

Beneficiary2 == << 2 >>

StreamDest == << 3 >>

BeneficiaryDests == { << >>, Beneficiary1, Beneficiary2 }

StreamState(total, claimed, start, end, dest) ==
    [ total_amount |-> total, claimed_amount |-> claimed,
      start_time |-> start, end_time |-> end, beneficiary_dest |-> dest ]

NativeOutput(amount, dest) == [ amount |-> amount, dest |-> dest ]

IndexedStreamState(state, index) == [ state |-> state, index |-> index ]

\* ------------------------------------------------------------------------
\* Integer helpers of u64
\* ------------------------------------------------------------------------

saturating_mul(a, b) == IF a * b > MaxU THEN MaxU ELSE a * b

wrapping_mul(a, b) == (a * b) % (MaxU + 1)

checked_sub(a, b) == IF a >= b THEN Some(a - b) ELSE None

saturating_sub(a, b) == IF a >= b THEN a - b ELSE 0

\* Vec::get with a 0-based index
Get(v, i) == IF i < Len(v) THEN Some(v[i + 1]) ELSE None

\* ------------------------------------------------------------------------
\* StreamState::vested_at
\* ------------------------------------------------------------------------

\* mutant: the product wraps instead of saturating
vested_at_wrapping(self, now) ==
    IF now <= self.start_time THEN 0
    ELSE IF now >= self.end_time THEN self.total_amount
    ELSE wrapping_mul(self.total_amount, now - self.start_time)
            \div (self.end_time - self.start_time)

vested_at(self, now) ==
    IF now <= self.start_time THEN 0
    ELSE IF now >= self.end_time THEN self.total_amount
    ELSE saturating_mul(self.total_amount, now - self.start_time)
            \div (self.end_time - self.start_time)

\* ------------------------------------------------------------------------
\* Transaction view (charms_sdk::data::Transaction, the fields the contract
\* reads).  ins / outs hold, per position, the Charms entry of this app:
\* None when the position carries no data for the app, Some(data) otherwise;
\* data is what Data::value::<StreamState>() yields: None when it does not
\* decode, Some(state) when it does.
\* ------------------------------------------------------------------------

Transaction(ins, outs, coin_ins, coin_outs) ==
    [ ins |-> ins, outs |-> outs, coin_ins |-> coin_ins, coin_outs |-> coin_outs ]

NoCharm == None

GarbageCharm == Some(None)

StreamCharm(state) == Some(Some(state))

stream_state_in_charms(charms) ==
    IF IsSome(charms) THEN Unwrap(charms) ELSE None

\* the 0-based positions of `entries` that hold a stream state, in order
StreamPositions(entries) ==
    SelectSeq([ i \in 1 .. Len(entries) |-> i - 1 ],
              LAMBDA i : IsSome(stream_state_in_charms(entries[i + 1])))

stream_states_in(tx) ==
    LET pos == StreamPositions(tx.ins)
    IN  [ k \in 1 .. Len(pos) |->
            IndexedStreamState(
                Unwrap(stream_state_in_charms(tx.ins[pos[k] + 1])), pos[k]) ]

\* mutant: each state is paired with its position after the filter
stream_states_out_post_filter(tx) ==
    LET pos == StreamPositions(tx.outs)
    IN  [ k \in 1 .. Len(pos) |->
            IndexedStreamState(
                Unwrap(stream_state_in_charms(tx.outs[pos[k] + 1])), k - 1) ]

stream_states_out(tx) ==
    LET pos == StreamPositions(tx.outs)
    IN  [ k \in 1 .. Len(pos) |->
            IndexedStreamState(
                Unwrap(stream_state_in_charms(tx.outs[pos[k] + 1])), pos[k]) ]

coin_outs_required(tx) ==
    IF ~IsSome(tx.coin_outs) THEN None
    ELSE IF Len(Unwrap(tx.coin_outs)) # Len(tx.outs) THEN None
    ELSE tx.coin_outs

\* mutant: the length of coin_ins is not compared with the inputs
coin_ins_required_present_only(tx) ==
    tx.coin_ins

coin_ins_required(tx) ==
    IF ~IsSome(tx.coin_ins) THEN None
    ELSE IF Len(Unwrap(tx.coin_ins)) # Len(tx.ins) THEN None
    ELSE tx.coin_ins

\* ------------------------------------------------------------------------
\* validate_create
\* ------------------------------------------------------------------------

\* mutant: an over-funded stream output passes
create_coin_check_at_least(coins, out) ==
    LET stream_coin == Get(coins, out.index)
    IN  IF ~IsSome(stream_coin) THEN "missing coin_out for stream output index"
        ELSE IF Unwrap(stream_coin).amount >= out.state.total_amount THEN "ok"
        ELSE "stream output amount mismatch"

\* lines 113-127: the coin at the stream output's index holds total_amount
create_coin_check(coins, out) ==
    LET stream_coin == Get(coins, out.index)
    IN  IF ~IsSome(stream_coin) THEN "missing coin_out for stream output index"
        ELSE IF Unwrap(stream_coin).amount = out.state.total_amount THEN "ok"
        ELSE "stream output amount mismatch"

validate_create(out, tx) ==
    LET coins == coin_outs_required(tx)
    IN  IF ~IsSome(coins) THEN "coin_outs missing or length mismatch"
        ELSE IF out.state.total_amount = 0 THEN "total_amount must be > 0"
        ELSE IF out.state.start_time >= out.state.end_time
            THEN "start_time must be < end_time"
        ELSE IF out.state.claimed_amount # 0
            THEN "claimed_amount must be 0 at create"
        ELSE IF out.state.beneficiary_dest = << >>
            THEN "beneficiary_dest must be provided"
        ELSE create_coin_check(Unwrap(coins), out)

\* ------------------------------------------------------------------------
\* validate_claim
\* ------------------------------------------------------------------------

\* mutant: the start check is left out
start_check_absent(prev_state, now) ==
    "ok"

\* lines 138-142: no claim before the stream has begun
start_check(prev_state, now) ==
    IF now < prev_state.start_time
        THEN "cannot claim before stream start_time"
    ELSE "ok"

\* mutant: end_time is not compared
schedule_check_start_only(prev_state, next) ==
    IF next.state.total_amount # prev_state.total_amount
        THEN "total_amount cannot change"
    ELSE IF next.state.start_time # prev_state.start_time
        THEN "stream schedule cannot change"
    ELSE "ok"

\* lines 144-153: same schedule
schedule_check(prev_state, next) ==
    IF next.state.total_amount # prev_state.total_amount
        THEN "total_amount cannot change"
    ELSE IF next.state.start_time # prev_state.start_time
            \/ next.state.end_time # prev_state.end_time
        THEN "stream schedule cannot change"
    ELSE "ok"

\* mutant: claimed_amount may move backwards
claimed_check_no_monotonicity(prev_state, next, now) ==
    IF next.state.claimed_amount > next.state.total_amount
        THEN "claimed_amount cannot exceed total_amount"
    ELSE IF next.state.claimed_amount > vested_at(prev_state, now)
        THEN "claimed_amount exceeds vested"
    ELSE "ok"

\* mutant: a claim has to stay below the vested amount
claimed_check_below_vested(prev_state, next, now) ==
    IF next.state.claimed_amount < prev_state.claimed_amount
        THEN "claimed_amount cannot decrease"
    ELSE IF next.state.claimed_amount > next.state.total_amount
        THEN "claimed_amount cannot exceed total_amount"
    ELSE IF next.state.claimed_amount >= vested_at(prev_state, now)
        THEN "claimed_amount exceeds vested"
    ELSE "ok"

\* mutant: the vesting bound is not checked
claimed_check_no_vesting(prev_state, next, now) ==
    IF next.state.claimed_amount < prev_state.claimed_amount
        THEN "claimed_amount cannot decrease"
    ELSE IF next.state.claimed_amount > next.state.total_amount
        THEN "claimed_amount cannot exceed total_amount"
    ELSE "ok"

\* lines 155-175: claimed only moves forward, hard upper bound, vesting bound
claimed_check(prev_state, next, now) ==
    IF next.state.claimed_amount < prev_state.claimed_amount
        THEN "claimed_amount cannot decrease"
    ELSE IF next.state.claimed_amount > next.state.total_amount
        THEN "claimed_amount cannot exceed total_amount"
    ELSE IF next.state.claimed_amount > vested_at(prev_state, now)
        THEN "claimed_amount exceeds vested"
    ELSE "ok"

\* mutant: the beneficiary may be replaced by another non-empty one
beneficiary_check_non_empty(prev_state, next) ==
    IF next.state.beneficiary_dest = << >>
        THEN "beneficiary_dest must be provided"
    ELSE "ok"

\* lines 177-184: pinned, non-empty beneficiary
beneficiary_check(prev_state, next) ==
    IF prev_state.beneficiary_dest # next.state.beneficiary_dest
        THEN "beneficiary_dest cannot change"
    ELSE IF next.state.beneficiary_dest = << >>
        THEN "beneficiary_dest must be provided"
    ELSE "ok"

\* mutant: a claim of nothing needs no payout output
payout_ok_skip_zero(coins, next, delta) ==
    \/ delta = 0
    \/ \E i \in 1 .. Len(coins) :
            /\ coins[i].dest = next.state.beneficiary_dest
            /\ coins[i].amount = delta

\* mutant: any output to the beneficiary counts as the payout
payout_ok_dest_only(coins, next, delta) ==
    \E i \in 1 .. Len(coins) :
        coins[i].dest = next.state.beneficiary_dest

\* lines 248-251: coins.iter().any(|o| o.dest == dest && o.amount == delta)
payout_ok(coins, next, delta) ==
    \E i \in 1 .. Len(coins) :
        /\ coins[i].dest = next.state.beneficiary_dest
        /\ coins[i].amount = delta

\* mutant: the coin at the stream output index only has to exist
remainder_check_any_amount(coins, next, remaining_after_claim) ==
    LET expected_remaining_from_state ==
            saturating_sub(next.state.total_amount, next.state.claimed_amount)
        stream_coin == Get(coins, next.index)
    IN  IF expected_remaining_from_state # remaining_after_claim
            THEN "state remainder differs from coin math"
        ELSE IF ~IsSome(stream_coin)
            THEN "missing coin_out for updated stream output index"
        ELSE "ok"

\* mutant: a claim that empties the escrow has no stream coin left to check
remainder_check_positive(coins, next, remaining_after_claim) ==
    LET expected_remaining_from_state ==
            saturating_sub(next.state.total_amount, next.state.claimed_amount)
        stream_coin == Get(coins, next.index)
    IN  IF expected_remaining_from_state # remaining_after_claim
            THEN "state remainder differs from coin math"
        ELSE IF ~IsSome(stream_coin)
            THEN "missing coin_out for updated stream output index"
        ELSE IF /\ Unwrap(stream_coin).amount = expected_remaining_from_state
                /\ expected_remaining_from_state > 0
            THEN "ok"
        ELSE "stream remainder mismatch"

\* lines 261-289: the remainder stays with the stream output index
remainder_check(coins, next, remaining_after_claim) ==
    LET expected_remaining_from_state ==
            saturating_sub(next.state.total_amount, next.state.claimed_amount)
        stream_coin == Get(coins, next.index)
    IN  IF expected_remaining_from_state # remaining_after_claim
            THEN "state remainder differs from coin math"
        ELSE IF ~IsSome(stream_coin)
            THEN "missing coin_out for updated stream output index"
        ELSE IF Unwrap(stream_coin).amount = expected_remaining_from_state
            THEN "ok"
        ELSE "stream remainder mismatch"

\* lines 195-224: the consumed input holds exactly the predecessor's remainder
input_check(prev, coin_ins) ==
    LET prev_remaining ==
            checked_sub(prev.state.total_amount, prev.state.claimed_amount)
        native_in == Get(coin_ins, prev.index)
    IN  IF ~IsSome(prev_remaining)
            THEN "prev.claimed_amount exceeds total_amount"
        ELSE IF ~IsSome(native_in) THEN "missing coin_in for stream input index"
        ELSE IF Unwrap(native_in).amount # Unwrap(prev_remaining)
            THEN "stream input amount mismatch"
        ELSE "ok"

\* lines 195-292: the conservation checks, once both coin lists are there
coin_checks(prev, next, coin_ins, coins) ==
    LET input_amount == Unwrap(Get(coin_ins, prev.index)).amount
        delta == checked_sub(next.state.claimed_amount,
                             prev.state.claimed_amount)
        remaining_after_claim == checked_sub(input_amount, Unwrap(delta))
    IN  IF input_check(prev, coin_ins) # "ok" THEN input_check(prev, coin_ins)
        ELSE IF ~IsSome(delta) THEN "claimed_amount must not decrease"
        ELSE IF ~IsSome(remaining_after_claim)
            THEN "claim delta exceeds stream escrow amount"
        ELSE IF ~payout_ok(coins, next, Unwrap(delta))
            THEN "payout output missing or mismatched"
        ELSE remainder_check(coins, next, Unwrap(remaining_after_claim))

validate_claim(prev, next, tx, now) ==
    LET prev_state == prev.state
        coin_ins == coin_ins_required(tx)
        coins == coin_outs_required(tx)
    IN  IF start_check(prev_state, now) # "ok"
            THEN start_check(prev_state, now)
        ELSE IF schedule_check(prev_state, next) # "ok"
            THEN schedule_check(prev_state, next)
        ELSE IF claimed_check(prev_state, next, now) # "ok"
            THEN claimed_check(prev_state, next, now)
        ELSE IF beneficiary_check(prev_state, next) # "ok"
            THEN beneficiary_check(prev_state, next)
        ELSE IF ~IsSome(coin_ins) THEN "coin_ins missing or length mismatch"
        ELSE IF ~IsSome(coins) THEN "coin_outs missing or length mismatch"
        ELSE coin_checks(prev, next, Unwrap(coin_ins), Unwrap(coins))

\* ------------------------------------------------------------------------
\* stream_contract_satisfied and app_contract.  The public input x is a
\* byte string (Data::empty() is << >>); the witness w is what
\* Data::value::<u64>() yields: None when it does not decode, Some(now).
\* ------------------------------------------------------------------------

\* mutant: any transaction with a stream input and one stream output is
\* validated as a CLAIM of its first stream input
stream_contract_first_input(tx, w) ==
    LET ins == stream_states_in(tx)
        outs == stream_states_out(tx)
    IN  IF ~IsSome(w) THEN "witness must contain a u64 now timestamp"
        ELSE IF Len(ins) = 0 /\ Len(outs) = 1 THEN validate_create(outs[1], tx)
        ELSE IF Len(ins) >= 1 /\ Len(outs) = 1
            THEN validate_claim(ins[1], outs[1], tx, Unwrap(w))
        ELSE "unexpected number of stream states"

\* mutant: the witness is decoded only where it is used, in the CLAIM branch
stream_contract_lazy_witness(tx, w) ==
    LET ins == stream_states_in(tx)
        outs == stream_states_out(tx)
    IN  IF Len(ins) = 0 /\ Len(outs) = 1 THEN validate_create(outs[1], tx)
        ELSE IF ~IsSome(w) THEN "witness must contain a u64 now timestamp"
        ELSE IF Len(ins) = 1 /\ Len(outs) = 1
            THEN validate_claim(ins[1], outs[1], tx, Unwrap(w))
        ELSE "unexpected number of stream states"

stream_contract_satisfied(tx, w) ==
    LET ins == stream_states_in(tx)
        outs == stream_states_out(tx)
    IN  IF ~IsSome(w) THEN "witness must contain a u64 now timestamp"
        ELSE IF Len(ins) = 0 /\ Len(outs) = 1 THEN validate_create(outs[1], tx)
        ELSE IF Len(ins) = 1 /\ Len(outs) = 1
            THEN validate_claim(ins[1], outs[1], tx, Unwrap(w))
        ELSE "unexpected number of stream states"

app_contract(tx, x, w) ==
    IF x # << >> THEN "public input must be empty"
    ELSE stream_contract_satisfied(tx, w)

\* ------------------------------------------------------------------------
\* State
\*   tx, x, w   the arguments of one call of app_contract
\*   result     "pending" before the call, then its diagnostic ("ok" = true)
\*   self, now  the arguments of one call of vested_at
\*   vested     None before the call, then Some(its value)
\*   utxo       the ledger's current stream output, None before the CREATE:
\*              Some([state, coin]) with the NativeOutput held at that output
\*   paid       the sum of the deltas of the applied transactions
\*   max_now    the largest witness time of an applied transaction
\*   pc         position of the caller
\* ------------------------------------------------------------------------

VARIABLES tx, x, w, result, pc, self, now, vested, utxo, paid, max_now

vars == << tx, x, w, result, pc, self, now, vested, utxo, paid, max_now >>

ledger == << utxo, paid, max_now >>

Amounts == 0 .. MaxAmount

Times == 0 .. MaxTime

StreamStates ==
    [ total_amount : Amounts, claimed_amount : Amounts,
      start_time : Times, end_time : Times,
      beneficiary_dest : BeneficiaryDests ]

EmptyTx == Transaction(<< >>, << >>, None, None)

ZeroState == StreamState(0, 0, 0, 0, << >>)

\* what the specifications of the validator leave untouched
NoVesting == self = ZeroState /\ now = 0 /\ vested = None

NoLedger == utxo = None /\ paid = 0 /\ max_now = 0

\* ------------------------------------------------------------------------
\* Inputs of app_contract.  The inputs are the union of five families; each
\* is a full product over the fields it varies.
\* ------------------------------------------------------------------------

Differs(a, b) == IF a = b THEN 0 ELSE 1

\* the successor states that change claimed_amount freely and at most one
\* of the pinned fields
NextOf(prev) ==
    { s \in StreamStates :
        Differs(s.total_amount, prev.total_amount)
        + Differs(s.start_time, prev.start_time)
        + Differs(s.end_time, prev.end_time)
        + Differs(s.beneficiary_dest, prev.beneficiary_dest) <= 1 }

\* the coins an honest claim carries
ExactIn(prev) ==
    NativeOutput(saturating_sub(prev.total_amount, prev.claimed_amount),
                 StreamDest)

ExactPayout(prev, next) ==
    NativeOutput(saturating_sub(next.claimed_amount, prev.claimed_amount),
                 next.beneficiary_dest)

ExactRemainder(next) ==
    NativeOutput(saturating_sub(next.total_amount, next.claimed_amount),
                 StreamDest)

\* the layout of the unit tests: one stream input, the payout at output 0
\* and the successor stream at output 1
ClaimTx(prev, next, coin_in, payout, stream_coin) ==
    Transaction(<< StreamCharm(prev) >>, << NoCharm, StreamCharm(next) >>,
                Some(<< coin_in >>), Some(<< payout, stream_coin >>))

\* sequences over S of length 0 .. n
SeqUpTo(S, n) == UNION { [ 1 .. k -> S ] : k \in 0 .. n }

\* most entries of ins / outs
MaxLen == 2

\* every predecessor, every successor of NextOf, every time, any input coin
InitStates ==
    \E prev \in StreamStates : \E next \in NextOf(prev) :
    \E t \in Times : \E a \in Amounts :
        /\ tx = ClaimTx(prev, next, NativeOutput(a, StreamDest),
                        ExactPayout(prev, next), ExactRemainder(next))
        /\ x = << >>
        /\ w = Some(t)

\* every combination of amounts in the states and in the three coins
InitCoins ==
    \E total \in Amounts, pclaimed \in Amounts, nclaimed \in Amounts :
    \E end \in Times, t \in Times : \E a \in Amounts :
    \E payout \in [ amount : Amounts, dest : { Beneficiary1, Beneficiary2 } ] :
    \E stream_coin \in [ amount : Amounts, dest : { StreamDest, Beneficiary1 } ] :
        /\ tx = ClaimTx(StreamState(total, pclaimed, 0, end, Beneficiary1),
                        StreamState(total, nclaimed, 0, end, Beneficiary1),
                        NativeOutput(a, StreamDest), payout, stream_coin)
        /\ x = << >>
        /\ w = Some(t)

\* every layout of ins and outs and every length of the coin lists, around
\* a fully vested stream
InitShapes ==
    \E nclaimed \in Amounts :
    LET prev == StreamState(MaxAmount, 0, 0, MaxTime, Beneficiary1)
        next == StreamState(MaxAmount, nclaimed, 0, MaxTime, Beneficiary1)
    IN  \E ins \in SeqUpTo({ NoCharm, StreamCharm(prev) }, MaxLen) :
        \E outs \in SeqUpTo({ NoCharm, GarbageCharm, StreamCharm(next) }, MaxLen) :
        \E coin_ins \in { None } \cup
                { Some([ i \in 1 .. n |-> ExactIn(prev) ]) : n \in 0 .. MaxLen + 1 } :
        \E coin_outs \in { None, Some(<< >>) } \cup
                { Some([ i \in 1 .. pn[2] |->
                            IF i = pn[1] THEN ExactPayout(prev, next)
                            ELSE ExactRemainder(next) ]) :
                  pn \in { q \in (1 .. MaxLen + 1) \X (1 .. MaxLen + 1) :
                            q[1] <= q[2] } } :
            /\ tx = Transaction(ins, outs, coin_ins, coin_outs)
            /\ x = << >>
            /\ w = Some(MaxTime)

\* every public input and witness, around a CREATE and a CLAIM
InitCall ==
    \E nclaimed \in Amounts : \E create \in BOOLEAN :
    \E px \in { << >>, << 1 >> } : \E pw \in { None } \cup { Some(t) : t \in Times } :
    LET prev == StreamState(MaxAmount, 0, 0, MaxTime, Beneficiary1)
        next == StreamState(MaxAmount, nclaimed, 0, MaxTime, Beneficiary1)
    IN  /\ tx = IF create
                THEN Transaction(<< >>, << StreamCharm(next) >>, None,
                                 Some(<< ExactRemainder(next) >>))
                ELSE ClaimTx(prev, next, ExactIn(prev),
                             ExactPayout(prev, next), ExactRemainder(next))
        /\ x = px
        /\ w = pw

\* every created state, any funding, at output 0 or 1, with coin lists that
\* are missing, too short, exact or too long
InitCreate ==
    \E out \in StreamStates : \E a \in Amounts :
    \E coin_ins \in { None, Some(<< >>) } :
    LET c == NativeOutput(a, StreamDest)
        c0 == NativeOutput(0, Beneficiary2)
    IN  \E oc \in { << << StreamCharm(out) >>, Some(<< c >>) >>,
                    << << StreamCharm(out) >>, None >>,
                    << << StreamCharm(out) >>, Some(<< c, c0 >>) >>,
                    << << NoCharm, StreamCharm(out) >>, Some(<< c0, c >>) >>,
                    << << NoCharm, StreamCharm(out) >>, Some(<< c, c0 >>) >>,
                    << << NoCharm, StreamCharm(out) >>, Some(<< c >>) >> } :
            /\ tx = Transaction(<< >>, oc[1], coin_ins, oc[2])
            /\ x = << >>
            /\ w = Some(0)

Init ==
    /\ InitStates \/ InitCoins \/ InitShapes \/ InitCall \/ InitCreate
    /\ result = "pending"
    /\ pc = "call"
    /\ NoVesting
    /\ NoLedger

\* one call of the entry point
AppContract ==
    /\ pc = "call"
    /\ result' = app_contract(tx, x, w)
    /\ pc' = "done"
    /\ UNCHANGED << tx, x, w, self, now, vested, ledger >>

Next == AppContract

Spec == Init /\ [][Next]_vars

\* ------------------------------------------------------------------------
\* VestSpec: vested_at on one state, called at increasing times.  The whole
\* unsigned range is drawn for total_amount, start_time, end_time and now,
\* so total_amount * elapsed exceeds MaxU in part of the runs.
\* ------------------------------------------------------------------------

InitVest ==
    /\ \E total \in U64, start \in U64, end \in U64 :
            self = StreamState(total, 0, start, end, Beneficiary1)
    /\ now = 0
    /\ vested = None
    /\ pc = "vest"
    /\ tx = EmptyTx /\ x = << >> /\ w = None /\ result = "pending"
    /\ NoLedger

VestedAt ==
    /\ pc = "vest"
    /\ \E t \in U64 :
        /\ vested = None \/ t > now
        /\ now' = t
        /\ vested' = Some(vested_at(self, t))
    /\ UNCHANGED << tx, x, w, result, pc, self, ledger >>

NextVest == VestedAt

VestSpec == InitVest /\ [][NextVest]_vars

\* ------------------------------------------------------------------------
\* ChainSpec: the ledger holding one stream.  A transaction is applied when
\* app_contract accepts it, and then its stream output, with the native coin
\* at the same index, becomes the ledger's stream output.  A CLAIM spends
\* that output: its only input carries the output's state and coin.  The
\* transaction itself is an argument and is not kept.  A rejected
\* transaction leaves no trace: result is "ok" once a transaction has been
\* applied, paid sums the deltas of the applied transactions and max_now is
\* the latest witness time among them.  The script locking the stream output
\* is the stream's own or the beneficiary's, and a CLAIM keeps it.
\* ------------------------------------------------------------------------

InitChain ==
    /\ NoLedger
    /\ result = "pending"
    /\ pc = "ledger"
    /\ tx = EmptyTx /\ x = << >> /\ w = None
    /\ NoVesting

\* the stream output a transaction leaves on the ledger
StreamOutput(t) ==
    LET out == stream_states_out(t)[1]
    IN  [ state |-> out.state, coin |-> Unwrap(t.coin_outs)[out.index + 1] ]

\* delta of a transaction: what its stream output claims beyond its stream
\* input (lines 226-229); a CREATE claims nothing
Delta(t) ==
    LET ins == stream_states_in(t)
        out == stream_states_out(t)[1]
    IN  IF Len(ins) = 0 THEN 0
        ELSE out.state.claimed_amount - ins[1].state.claimed_amount

Max(a, b) == IF a >= b THEN a ELSE b

Apply(t, pw) ==
    LET r == app_contract(t, << >>, pw)
    IN  /\ result' = (IF r = "ok" THEN r ELSE result)
        /\ utxo' = IF r = "ok" THEN Some(StreamOutput(t)) ELSE utxo
        /\ paid' = IF r = "ok" THEN paid + Delta(t) ELSE paid
        /\ max_now' = IF r = "ok" THEN Max(max_now, Unwrap(pw)) ELSE max_now
        /\ UNCHANGED << tx, x, w, pc, self, now, vested >>

\* any state, any funding, the stream output at index 0 or 1
Create ==
    /\ pc = "ledger"
    /\ utxo = None
    /\ \E out \in StreamStates : \E a \in Amounts :
       \E script \in { StreamDest, Beneficiary1 } :
       LET stream_coin == NativeOutput(a, script)
           other == NativeOutput(0, Beneficiary2)
       IN  \E oc \in { << << StreamCharm(out) >>, Some(<< stream_coin >>) >>,
                       << << NoCharm, StreamCharm(out) >>,
                          Some(<< other, stream_coin >>) >> } :
                Apply(Transaction(<< >>, oc[1], None, oc[2]), Some(0))

\* any successor of NextOf, any time, any payout and remainder amounts
Claim ==
    /\ pc = "ledger"
    /\ utxo # None
    /\ LET prev == Unwrap(utxo)
       IN  \E next \in NextOf(prev.state) : \E t \in Times :
           \E p \in Amounts, r \in Amounts :
                Apply(ClaimTx(prev.state, next, prev.coin,
                              NativeOutput(p, next.beneficiary_dest),
                              NativeOutput(r, prev.coin.dest)),
                      Some(t))

NextChain == Create \/ Claim

ChainSpec == InitChain /\ [][NextChain]_vars

\* ------------------------------------------------------------------------
\* Reading a transaction for the properties: the stream-typed entries are
\* counted and located directly on tx.ins / tx.outs.
\* ------------------------------------------------------------------------

IsStreamCharm(c) == Len(c) = 1 /\ Len(c[1]) = 1

StreamIndexes(entries) ==
    { i \in 0 .. Len(entries) - 1 : IsStreamCharm(entries[i + 1]) }

NumIn == Cardinality(StreamIndexes(tx.ins))

NumOut == Cardinality(StreamIndexes(tx.outs))

IsCreate == NumIn = 0 /\ NumOut = 1

IsClaim == NumIn = 1 /\ NumOut = 1

PrevIndex == CHOOSE i \in StreamIndexes(tx.ins) : TRUE

NextIndex == CHOOSE i \in StreamIndexes(tx.outs) : TRUE

PrevState == tx.ins[PrevIndex + 1][1][1]

NextState == tx.outs[NextIndex + 1][1][1]

\* the native coins of the transaction, as sequences (empty when absent)
CoinIns == IF tx.coin_ins = None THEN << >> ELSE tx.coin_ins[1]

CoinOuts == IF tx.coin_outs = None THEN << >> ELSE tx.coin_outs[1]

Done == pc = "done"

Accepted == Done /\ result = "ok"

Rejected == Done /\ result # "ok"

WitnessDecodes == w # None

Now == w[1]

\* ------------------------------------------------------------------------
\* Properties
\* ------------------------------------------------------------------------

CreateStateOk ==
    /\ NextState.total_amount > 0
    /\ NextState.start_time < NextState.end_time
    /\ NextState.claimed_amount = 0
    /\ NextState.beneficiary_dest # << >>

CreateCoinOk ==
    /\ NextIndex < Len(CoinOuts)
    /\ CoinOuts[NextIndex + 1].amount = NextState.total_amount

\* C1 as stated: a CREATE is accepted iff total_amount > 0, start_time <
\* end_time, claimed_amount = 0, beneficiary_dest is non-empty and the native
\* coin output at the stream output's index holds exactly total_amount.
C1_CreateIffStated ==
    (Done /\ IsCreate) => (result = "ok" <=> (CreateStateOk /\ CreateCoinOk))

\* C1 amended: a CREATE is accepted iff, besides the five conditions, the
\* public input is empty, the witness decodes and the native-coin-output
\* list is present with as many entries as the transaction has outputs.
C1_CreateIff ==
    (Done /\ IsCreate) =>
        (result = "ok" <=>
            /\ x = << >>
            /\ WitnessDecodes
            /\ tx.coin_outs # None
            /\ Len(CoinOuts) = Len(tx.outs)
            /\ CreateStateOk
            /\ CreateCoinOk)

\* an accepted CREATE whose stream output is not the first output
C1_Witness == Accepted /\ IsCreate /\ NextIndex = 1

\* C2: an accepted CLAIM consumes a coin of prev.total - prev.claimed, pays
\* exactly delta = next.claimed - prev.claimed to next.beneficiary_dest in
\* some native output, and leaves next.total - next.claimed at next's index.
C2_ClaimConservation ==
    (Accepted /\ IsClaim) =>
        /\ PrevIndex < Len(CoinIns)
        /\ PrevState.claimed_amount <= PrevState.total_amount
        /\ CoinIns[PrevIndex + 1].amount
                = PrevState.total_amount - PrevState.claimed_amount
        /\ NextState.claimed_amount >= PrevState.claimed_amount
        /\ \E i \in 1 .. Len(CoinOuts) :
                /\ CoinOuts[i].dest = NextState.beneficiary_dest
                /\ CoinOuts[i].amount
                        = NextState.claimed_amount - PrevState.claimed_amount
        /\ NextIndex < Len(CoinOuts)
        /\ NextState.claimed_amount <= NextState.total_amount
        /\ CoinOuts[NextIndex + 1].amount
                = NextState.total_amount - NextState.claimed_amount

\* an accepted CLAIM that pays something and leaves something
C2_Witness ==
    /\ Accepted /\ IsClaim
    /\ NextState.claimed_amount > PrevState.claimed_amount
    /\ NextState.claimed_amount < NextState.total_amount

\* C3: a CLAIM with next.claimed > prev.vested_at(now), or with next.claimed
\* < prev.claimed, is rejected, whatever the time and the coins.
C3_NoOverVesting ==
    (Done /\ IsClaim /\ WitnessDecodes
        /\ \/ NextState.claimed_amount > vested_at(PrevState, Now)
           \/ NextState.claimed_amount < PrevState.claimed_amount)
    => result # "ok"

\* a CLAIM inside the schedule that fails on the vesting bound alone
C3_Witness ==
    /\ Rejected /\ IsClaim
    /\ PrevState.start_time < Now /\ Now < PrevState.end_time
    /\ NextState = [ PrevState EXCEPT !.claimed_amount = PrevState.total_amount ]
    /\ NextState.claimed_amount > vested_at(PrevState, Now)
    /\ CoinIns[PrevIndex + 1].amount
            = PrevState.total_amount - PrevState.claimed_amount

\* C4: a CLAIM whose successor differs from prev in total_amount, start_time,
\* end_time or beneficiary_dest is rejected.
C4_ImmutableFields ==
    (Done /\ IsClaim
        /\ \/ NextState.total_amount # PrevState.total_amount
           \/ NextState.start_time # PrevState.start_time
           \/ NextState.end_time # PrevState.end_time
           \/ NextState.beneficiary_dest # PrevState.beneficiary_dest)
    => result # "ok"

\* a CLAIM rejected although only the beneficiary changed, to a non-empty one
C4_Witness ==
    /\ Rejected /\ IsClaim
    /\ NextState.beneficiary_dest # << >>
    /\ NextState.beneficiary_dest # PrevState.beneficiary_dest
    /\ PrevState.beneficiary_dest # << >>
    /\ NextState = [ PrevState EXCEPT
                        !.beneficiary_dest = NextState.beneficiary_dest ]
    /\ Now >= PrevState.start_time

\* C5: in an accepted CLAIM the payout of delta to next.beneficiary_dest is
\* an output other than the successor stream output.
C5_PayoutDistinct ==
    (Accepted /\ IsClaim) =>
        \E i \in 0 .. Len(CoinOuts) - 1 :
            /\ i # NextIndex
            /\ CoinOuts[i + 1].dest = NextState.beneficiary_dest
            /\ CoinOuts[i + 1].amount
                    = NextState.claimed_amount - PrevState.claimed_amount

Elapsed == now - self.start_time

Duration == self.end_time - self.start_time

\* C6: for start_time < now < end_time, vested_at(now) is exactly
\* floor(total_amount * (now - start_time) / (end_time - start_time)), also
\* when the product exceeds the largest unsigned value.
C6_ExactFloor ==
    (vested # None /\ self.start_time < now /\ now < self.end_time)
    => vested[1] = (self.total_amount * Elapsed) \div Duration

\* C7: for start_time < end_time, vested_at(now) never decreases as now
\* grows, is 0 for every now <= start_time and is total_amount for every
\* now >= end_time.
C7_Monotone ==
    /\ []((vested # None /\ self.start_time < self.end_time) =>
            /\ now <= self.start_time => vested[1] = 0
            /\ now >= self.end_time => vested[1] = self.total_amount)
    /\ [][(vested # None /\ self.start_time < self.end_time /\ now' > now)
            => vested'[1] >= vested[1]]_vars

\* a call strictly inside the schedule whose product saturates, as does the
\* product one time unit earlier
C7_Witness ==
    /\ vested # None
    /\ self.start_time + 1 < now /\ now < self.end_time
    /\ self.total_amount * Elapsed > MaxU
    /\ self.total_amount * (Elapsed - 1) > MaxU
    /\ vested[1] > 0

\* C8: a transaction is accepted only if it holds no stream input and one
\* stream output, or one stream input and one stream output.
C8_Arity ==
    Accepted => (IsCreate \/ IsClaim)

\* two stream inputs and one stream output whose first input, successor and
\* coins would make a valid CLAIM: rejected by the count alone
C8_Witness ==
    /\ Rejected
    /\ NumIn = 2 /\ NumOut = 1
    /\ Len(CoinIns) = 2 /\ Len(CoinOuts) = 2
    /\ NextIndex = 1
    /\ CoinOuts[1] = ExactPayout(PrevState, NextState)
    /\ NextState.claimed_amount > 0

\* C9: the stream state an accepted transaction produces has claimed_amount
\* <= total_amount, start_time < end_time and a non-empty beneficiary_dest,
\* whatever the consumed state is.
C9_OutputInvariants ==
    Accepted =>
        /\ NextState.claimed_amount <= NextState.total_amount
        /\ NextState.start_time < NextState.end_time
        /\ NextState.beneficiary_dest # << >>

\* C10: the native coin at the ledger's stream output holds total_amount -
\* claimed_amount of the state at that output.
C10_Escrow ==
    utxo # None =>
        /\ utxo[1].state.claimed_amount <= utxo[1].state.total_amount
        /\ utxo[1].coin.amount
                = utxo[1].state.total_amount - utxo[1].state.claimed_amount

\* the ledger after a CREATE and at least two paying CLAIMs
C10_Witness ==
    /\ utxo # None
    /\ utxo[1].state.claimed_amount = 2
    /\ utxo[1].state.start_time = 0
    /\ utxo[1].state.end_time = 2
    /\ result = "ok"

\* ------------------------------------------------------------------------
\* Properties of the ledger chain
\* ------------------------------------------------------------------------

Pinned(s) ==
    << s.total_amount, s.start_time, s.end_time, s.beneficiary_dest >>

\* C11: the state a CREATE puts on the ledger has claimed_amount = 0; every
\* CLAIM replaces the ledger's state by one with the same total_amount,
\* start_time, end_time and beneficiary_dest (hence those of the CREATE) and
\* a claimed_amount that is not smaller.
C11_Lifecycle ==
    [][ /\ (utxo = None /\ utxo' # None)
            => utxo'[1].state.claimed_amount = 0
        /\ utxo # None
            => /\ utxo' # None
               /\ Pinned(utxo'[1].state) = Pinned(utxo[1].state)
               /\ utxo'[1].state.claimed_amount
                    >= utxo[1].state.claimed_amount ]_vars

\* the ledger after a CREATE of 2 and one CLAIM of 1
C11_Witness ==
    /\ utxo # None
    /\ utxo[1].state.total_amount = 2
    /\ utxo[1].state.claimed_amount = 1
    /\ utxo[1].state.end_time = 2
    /\ utxo[1].state.beneficiary_dest = Beneficiary2
    /\ result = "ok"

\* ------------------------------------------------------------------------
\* Properties of one call, continued
\* ------------------------------------------------------------------------

CoinOutsListOk == tx.coin_outs # None /\ Len(CoinOuts) = Len(tx.outs)

CoinInsListOk == tx.coin_ins # None /\ Len(CoinIns) = Len(tx.ins)

\* C12: a CREATE is rejected when coin_outs is absent or not as long as
\* outs (an accepted one has the list, of that length); a CLAIM is rejected
\* when coin_ins or coin_outs is absent or not as long as ins or outs; the
\* verdict of a CREATE is the same whatever coin_ins is, absent included.
C12_CoinLists ==
    /\ (Accepted /\ IsCreate) => CoinOutsListOk
    /\ (Accepted /\ IsClaim) => (CoinInsListOk /\ CoinOutsListOk)
    /\ (Done /\ IsCreate) =>
            \A ci \in { None, Some(<< >>), Some(<< NativeOutput(0, StreamDest) >>) } :
                app_contract([ tx EXCEPT !.coin_ins = ci ], x, w) = result

\* a CLAIM that passes every state check and carries exact coins at the
\* stream indexes, rejected for one coin_ins entry too many
C12_Witness ==
    /\ Rejected /\ IsClaim
    /\ result = "coin_ins missing or length mismatch"
    /\ Len(tx.ins) = 1 /\ Len(CoinIns) = 2
    /\ CoinOutsListOk
    /\ CoinIns[1] = ExactIn(PrevState)
    /\ NextIndex = 1
    /\ CoinOuts[1] = ExactPayout(PrevState, NextState)
    /\ CoinOuts[2] = ExactRemainder(NextState)

\* C13: app_contract returns false whenever the public input is non-empty or
\* the witness does not decode, for a CREATE that validate_create accepts too.
C13_PublicInputAndWitness ==
    (Done /\ (x # << >> \/ ~WitnessDecodes)) => result # "ok"

\* a CREATE that validate_create accepts, rejected for its witness alone
C13_Witness ==
    /\ Rejected /\ IsCreate
    /\ x = << >> /\ ~WitnessDecodes
    /\ validate_create(stream_states_out(tx)[1], tx) = "ok"
    /\ result = "witness must contain a u64 now timestamp"

Min(a, b) == IF a <= b THEN a ELSE b

\* the conditions of C14, read off the transaction and the witness
ClaimConditions ==
    LET prev == PrevState
        next == NextState
    IN  /\ Now >= prev.start_time
        /\ Pinned(next) = Pinned(prev)
        /\ next.beneficiary_dest # << >>
        /\ prev.claimed_amount <= next.claimed_amount
        /\ next.claimed_amount
                <= Min(prev.total_amount, vested_at(prev, Now))
        /\ CoinInsListOk /\ CoinOutsListOk
        /\ CoinIns[PrevIndex + 1].amount
                = prev.total_amount - prev.claimed_amount
        /\ CoinOuts[NextIndex + 1].amount
                = prev.total_amount - next.claimed_amount
        /\ \E i \in 1 .. Len(CoinOuts) :
                /\ CoinOuts[i].amount
                        = next.claimed_amount - prev.claimed_amount
                /\ CoinOuts[i].dest = next.beneficiary_dest

\* C14: validate_claim accepts every CLAIM with now >= prev.start_time, the
\* four pinned fields kept and a non-empty beneficiary, prev.claimed <=
\* next.claimed <= min(total, prev.vested_at(now)), both coin lists present
\* with matching lengths, the input coin equal to total - prev.claimed, the
\* stream output coin equal to total - next.claimed and some output paying
\* exactly the delta to the beneficiary; with an empty public input
\* app_contract returns true for it.
C14_ClaimAccepted ==
    (Done /\ IsClaim /\ WitnessDecodes /\ ClaimConditions) =>
        /\ validate_claim(stream_states_in(tx)[1], stream_states_out(tx)[1],
                          tx, Now) = "ok"
        /\ x = << >> => result = "ok"

\* the claim of the unit test, scaled: half of the stream vested, half claimed
C14_Witness ==
    /\ Accepted /\ IsClaim /\ ClaimConditions
    /\ PrevState.total_amount = 2 /\ PrevState.claimed_amount = 0
    /\ PrevState.start_time = 0 /\ PrevState.end_time = 2
    /\ Now = 1 /\ NextState.claimed_amount = 1

\* proj lists the stream states of entries: one element for each entry that
\* decodes, in the order of the entries, each with the 0-based position of
\* its entry among all entries
Projects(proj, entries) ==
    /\ Len(proj) = Cardinality(StreamIndexes(entries))
    /\ \A k \in 1 .. Len(proj) :
            /\ proj[k].index \in 0 .. Len(entries) - 1
            /\ entries[proj[k].index + 1] = StreamCharm(proj[k].state)
    /\ \A k \in 2 .. Len(proj) : proj[k - 1].index < proj[k].index

\* C15: the projector keeps the stream states in ledger order, each with
\* its original position among all inputs or outputs; skipped entries do not
\* count toward the arity; the coin checks of an accepted CREATE or CLAIM
\* are about the native coins at those original positions.
C15_Projector ==
    /\ Done => LET ins == stream_states_in(tx)
                   outs == stream_states_out(tx)
               IN  Projects(ins, tx.ins) /\ Projects(outs, tx.outs)
    /\ (Done /\ x = << >> /\ WitnessDecodes) =>
            (result = "unexpected number of stream states"
                <=> ~(IsCreate \/ IsClaim))
    /\ (Accepted /\ IsCreate) =>
            CoinOuts[NextIndex + 1].amount = NextState.total_amount
    /\ (Accepted /\ IsClaim) =>
            /\ CoinIns[PrevIndex + 1].amount
                    = PrevState.total_amount - PrevState.claimed_amount
            /\ CoinOuts[NextIndex + 1].amount
                    = NextState.total_amount - NextState.claimed_amount

\* an accepted CLAIM whose stream input and stream output both come second,
\* after an entry without a stream state, and whose coin at output position
\* 0 differs from the one at the stream's position 1
C15_Witness ==
    /\ Accepted /\ IsClaim
    /\ Len(tx.ins) = 2 /\ PrevIndex = 1
    /\ Len(tx.outs) = 2 /\ NextIndex = 1
    /\ tx.outs[1] = GarbageCharm
    /\ CoinOuts[1].amount # CoinOuts[2].amount

\* a CLAIM that changes nothing and whose coins are exact
NoOpClaim ==
    /\ IsClaim
    /\ NextState = PrevState
    /\ CoinInsListOk /\ CoinOutsListOk
    /\ CoinIns[PrevIndex + 1].amount
            = PrevState.total_amount - PrevState.claimed_amount
    /\ CoinOuts[NextIndex + 1].amount
            = PrevState.total_amount - PrevState.claimed_amount
    /\ \E i \in 1 .. Len(CoinOuts) :
            CoinOuts[i] = NativeOutput(0, NextState.beneficiary_dest)

\* C16: every CLAIM with now < prev.start_time is rejected (an accepted
\* one has now >= prev.start_time), the one that changes nothing and has
\* exact coins included; the start check rejects only when now <
\* prev.start_time, so a claim with now = prev.start_time passes it.
C16_StartTime ==
    /\ (Accepted /\ IsClaim /\ WitnessDecodes) => Now >= PrevState.start_time
    /\ (Done /\ result = "cannot claim before stream start_time") =>
            /\ IsClaim /\ WitnessDecodes
            /\ Now < PrevState.start_time
            /\ start_check(PrevState, PrevState.start_time) = "ok"

\* a no-op CLAIM with exact coins, rejected only for its witness time
C16_Witness ==
    /\ Rejected /\ NoOpClaim /\ x = << >> /\ WitnessDecodes
    /\ PrevState.start_time < PrevState.end_time
    /\ PrevState.beneficiary_dest # << >>
    /\ PrevState.claimed_amount = 0
    /\ Now < PrevState.start_time
    /\ result = "cannot claim before stream start_time"

ZeroPayout ==
    \E i \in 1 .. Len(CoinOuts) :
        CoinOuts[i] = NativeOutput(0, NextState.beneficiary_dest)

\* C18: a CLAIM with next.claimed_amount = prev.claimed_amount is accepted
\* only if some native coin output has amount 0 and the beneficiary's
\* destination: no accepted no-op claim is without one, however consistent
\* its states and escrow amounts.
C18_ZeroPayout ==
    (Accepted /\ IsClaim
        /\ NextState.claimed_amount = PrevState.claimed_amount)
        => ZeroPayout

\* a no-op CLAIM at a valid time with the exact input coin and the exact
\* remainder at the stream output, rejected for the missing zero output
C18_Witness ==
    /\ Rejected /\ IsClaim /\ x = << >> /\ WitnessDecodes
    /\ NextState = PrevState
    /\ Now >= PrevState.start_time
    /\ CoinInsListOk /\ CoinOutsListOk
    /\ CoinIns[PrevIndex + 1].amount
            = PrevState.total_amount - PrevState.claimed_amount
    /\ CoinOuts[NextIndex + 1].amount
            = PrevState.total_amount - PrevState.claimed_amount
    /\ PrevState.claimed_amount < PrevState.total_amount
    /\ ~ZeroPayout
    /\ result = "payout output missing or mismatched"

\* the diagnostics of the defensive guards of validate_claim
GuardDiagnostics ==
    { "prev.claimed_amount exceeds total_amount",
      "claimed_amount must not decrease",
      "claim delta exceeds stream escrow amount",
      "state remainder differs from coin math" }

\* the checks of validate_claim that come before its arithmetic have passed
StateChecksPassed ==
    LET prev == stream_states_in(tx)[1]
        next == stream_states_out(tx)[1]
    IN  /\ IsClaim /\ WitnessDecodes
        /\ start_check(prev.state, Now) = "ok"
        /\ schedule_check(prev.state, next) = "ok"
        /\ claimed_check(prev.state, next, Now) = "ok"
        /\ beneficiary_check(prev.state, next) = "ok"
        /\ IsSome(coin_ins_required(tx))
        /\ IsSome(coin_outs_required(tx))

\* C20: the defensive integer guards of validate_claim never decide the
\* outcome: once the schedule, monotonicity, upper-bound, vesting,
\* beneficiary and coin-list checks have passed, total - prev.claimed and
\* next.claimed - prev.claimed do not underflow, and when the input amount
\* equals prev_remaining, input_amount - delta does not underflow and
\* equals next.total - next.claimed; no call ends with a guard's diagnostic.
C20_GuardsNeverDecide ==
    /\ Done => result \notin GuardDiagnostics
    /\ (Done /\ StateChecksPassed) =>
        LET prev == PrevState
            next == NextState
            prev_remaining == checked_sub(prev.total_amount,
                                          prev.claimed_amount)
            delta == checked_sub(next.claimed_amount, prev.claimed_amount)
            native_in == Get(CoinIns, PrevIndex)
        IN  /\ IsSome(prev_remaining)
            /\ IsSome(delta)
            /\ (IsSome(native_in)
                    /\ Unwrap(native_in).amount = Unwrap(prev_remaining)) =>
                LET remaining_after_claim ==
                        checked_sub(Unwrap(native_in).amount, Unwrap(delta))
                IN  /\ IsSome(remaining_after_claim)
                    /\ Unwrap(remaining_after_claim)
                        = saturating_sub(next.total_amount,
                                         next.claimed_amount)

\* a CLAIM of a positive delta from a stream already claimed in part, that
\* passes every guard and is decided by the coin at the stream output
C20_Witness ==
    /\ Done /\ StateChecksPassed /\ x = << >>
    /\ PrevState.claimed_amount > 0
    /\ NextState.claimed_amount > PrevState.claimed_amount
    /\ result = "stream remainder mismatch"

\* ------------------------------------------------------------------------
\* Properties of the ledger chain, continued
\* ------------------------------------------------------------------------

\* C17: along a chain of an accepted CREATE and accepted CLAIMs, each
\* consuming the previous stream output, the sum of the deltas of the claims
\* equals the claimed_amount of the current state, is at most total_amount
\* and at most vested_at at the largest witness time used so far; once
\* claimed_amount = total_amount every accepted claim has delta = 0.
C17_ChainTotals ==
    /\ [](utxo # None =>
            /\ paid = utxo[1].state.claimed_amount
            /\ paid <= utxo[1].state.total_amount
            /\ paid <= vested_at(utxo[1].state, max_now))
    /\ [][ (utxo # None
                /\ utxo[1].state.claimed_amount = utxo[1].state.total_amount)
            => paid' = paid ]_vars

\* a stream that starts late, claimed in full at its end_time
C17_Witness ==
    /\ utxo # None
    /\ utxo[1].state.start_time = 1 /\ utxo[1].state.end_time = 2
    /\ utxo[1].state.total_amount = 2
    /\ paid = 2 /\ max_now = 2

\* the claim that pays the rest of the stream on the ledger: the payout of
\* total_amount - claimed_amount to the beneficiary, the successor stream
\* output holding 0 under the script of the consumed one
FullClaimTx ==
    LET prev == utxo[1]
        next == [ prev.state EXCEPT !.claimed_amount = prev.state.total_amount ]
    IN  ClaimTx(prev.state, next, prev.coin,
                NativeOutput(prev.state.total_amount - prev.state.claimed_amount,
                             prev.state.beneficiary_dest),
                NativeOutput(0, prev.coin.dest))

\* C19: in every state of the ledger chain, for every witness time now >=
\* end_time, the CLAIM to claimed_amount = total_amount that pays
\* total_amount - prev.claimed_amount to the beneficiary and leaves 0 in the
\* successor stream output is accepted: no reachable state blocks the
\* stream from being paid in full.
C19_PayableInFull ==
    utxo # None =>
        \A t \in U64 :
            t >= utxo[1].state.end_time =>
                app_contract(FullClaimTx, << >>, Some(t)) = "ok"

\* a stream half claimed, last seen before its end
C19_Witness ==
    /\ utxo # None
    /\ utxo[1].state.total_amount = 2 /\ utxo[1].state.claimed_amount = 1
    /\ utxo[1].state.start_time = 0 /\ utxo[1].state.end_time = 2
    /\ paid = 1 /\ max_now = 1
    /\ Len(stream_states_out(FullClaimTx)) = 1
    /\ stream_states_out(FullClaimTx)[1].state.claimed_amount = 2

====
